---------------------------- MODULE Spec2Model ----------------------------
(***************************************************************************)
(* Tenant resolution and per-tenant database routing of the recruiter      *)
(* application: the connection registry (src/config/database.js), the      *)
(* request binder (src/middleware/tenant.js), the super-admin handlers     *)
(* that touch tenant records (src/controllers/superAdminController.js)     *)
(* and the public handlers of src/controllers/authController.js.           *)
(*                                                                         *)
(* The server is a Node.js process: a handler runs without interruption    *)
(* until it reaches an await, so every action below is the code that runs  *)
(* between two awaits of one handler.  Strings are sequences of            *)
(* one-character strings, so that the host parsing is computed and not     *)
(* assumed.                                                                *)
(***************************************************************************)
EXTENDS Integers, Sequences, FiniteSets, TLC

(***************************************************************************)
(* Bounds of the model.                                                    *)
(***************************************************************************)
MaxRequests == 2
\* direct calls of the registry's methods
MaxCalls == 3
\* characters in the leftmost text of a probed host
MaxLabelLen == 3
\* candidates the subdomain loop of createTenant may number
MaxCounter == 4

(***************************************************************************)
(* String literals of the source.                                          *)
(***************************************************************************)
DotLocalhost == <<".","l","o","c","a","l","h","o","s","t">>
DotLvhMe == <<".","l","v","h",".","m","e">>
DotMyappCom == <<".","m","y","a","p","p",".","c","o","m">>
WWW == <<"w","w","w">>
MasterDbName == <<"m","a","s","t","e","r","_","t","e","n","a","n","t","_","d","b">>
TenantDbPrefix == <<"t","e","n","a","n","t","_">>
AdminPrefix == <<"/","a","p","i","/","s","u","p","e","r","-","a","d","m","i","n">>

(***************************************************************************)
(* Values a JavaScript variable holds when it holds nothing: the falsy     *)
(* string (null, undefined or ""), the null connection, the null document. *)
(***************************************************************************)
NoString == << >>
NoConn == 0
NullTenant == [id |-> "null", subdomain |-> NoString, isActive |-> FALSE]
NoResponse == [status |-> 0, code |-> "", message |-> ""]

\* messages of the errors thrown: by getTenantDB and getMasterConnection
\* themselves, and by the database client (a rejected createConnection,
\* query, createIndex or close)
TenantIdRequired == "Tenant ID is required"
MasterNotInitialized == "Master database not initialized"
ClientError == "MongoNetworkError: connect ECONNREFUSED"

(***************************************************************************)
(* Inputs: the identifiers, hosts and paths the requests are drawn from.   *)
(***************************************************************************)
ACME == <<"a","c","m","e">>
BETA == <<"b","e","t","a">>
GHOST == <<"g","h","o","s","t">>
TenantIds == {ACME, BETA, GHOST}

AcmeHost == <<"a","c","m","e",".","l","o","c","a","l","h","o","s","t",":","3","0","0","0">>
BetaHost == <<"b","e","t","a",".","m","y","a","p","p",".","c","o","m">>
GhostHost == <<"g","h","o","s","t",".","l","v","h",".","m","e">>
WwwHost == <<"w","w","w",".","m","y","a","p","p",".","c","o","m">>
JobsPath == <<"/","a","p","i","/","j","o","b","s">>
AdminTenantsPath ==
  <<"/","a","p","i","/","s","u","p","e","r","-","a","d","m","i","n","/","t","e","n","a","n","t","s">>

\* the requests that arrive: a host header and a path
Inbound ==
  { <<AcmeHost, JobsPath>>, <<BetaHost, JobsPath>>, <<GhostHost, JobsPath>>,
    <<WwwHost, JobsPath>>, <<AcmeHost, AdminTenantsPath>> }

TenantRecIds == {"t1", "t2", "t3"}

(***************************************************************************)
(* String helpers.                                                         *)
(***************************************************************************)
\* String.prototype.startsWith
StartsWith(s, prefix) ==
  /\ Len(prefix) <= Len(s)
  /\ SubSeq(s, 1, Len(prefix)) = prefix

\* the host taken whole, its port left in place
BeforeColon_Whole(s) == s

\* host.split(':')[0]: the text before the first colon, all of it when none
BeforeColon(s) ==
  LET colons == {i \in 1..Len(s) : s[i] = ":"}
  IN  IF colons = {} THEN s
      ELSE SubSeq(s, 1, (CHOOSE i \in colons : \A j \in colons : i <= j) - 1)

\* cleanHost.match(/^([^.]+)<suffix>$/): the captured label, NoString when
\* the pattern does not match (a captured label is never empty)
MatchLabel(cleanHost, suffix) ==
  LET n == Len(cleanHost) - Len(suffix)
  IN  IF /\ n >= 1
         /\ SubSeq(cleanHost, n + 1, Len(cleanHost)) = suffix
         /\ \A i \in 1..n : cleanHost[i] # "."
      THEN SubSeq(cleanHost, 1, n)
      ELSE NoString

\* the first label that matched, www or not
FirstTenantLabel_WwwAllowed(labels) ==
  LET hits == {i \in 1..Len(labels) : labels[i] # << >>}
  IN  IF hits = {} THEN << >>
      ELSE labels[CHOOSE i \in hits : \A j \in hits : i <= j]

\* the first label of the patterns, tried in order, that matched and is not www
FirstTenantLabel(labels) ==
  LET hits == {i \in 1..Len(labels) : labels[i] # NoString /\ labels[i] # WWW}
  IN  IF hits = {} THEN NoString
      ELSE labels[CHOOSE i \in hits : \A j \in hits : i <= j]

extractTenantFromHost(host) ==
  IF host = NoString THEN NoString
  ELSE LET cleanHost == BeforeColon(host)
       IN  FirstTenantLabel(<< MatchLabel(cleanHost, DotLocalhost),
                               MatchLabel(cleanHost, DotLvhMe),
                               MatchLabel(cleanHost, DotMyappCom) >>)


(***************************************************************************)
(* State.                                                                  *)
(*   masterConnection, connections : the fields of DatabaseManager; the    *)
(*       Map is kept as its entries in insertion order, which is the order *)
(*       its iterator visits them in.                                      *)
(*   handles   : every connection mongoose.createConnection has returned,  *)
(*       with the database it is opened against and whether it is open;    *)
(*       a connection is named by its index.                               *)
(*   tenants   : the Tenant collection of the master database.             *)
(*   pc, frame, req, res, nextCalls : one run of tenantMiddleware per      *)
(*       request: where it is suspended, its local constants, the fields   *)
(*       it sets on req, the response it sent, the calls of next().        *)
(*   obs       : what each request was observed to do (the calls it made,  *)
(*       the responses it sent, the error thrown inside it) and what the   *)
(*       Tenant collection held when its lookup was served.                *)
(*   closer    : the run of closeAllConnections in progress.               *)
(*   sa        : the run of registerSuperAdmin / loginSuperAdmin.          *)
(*   probe     : one direct call of extractTenantFromHost: the host it is  *)
(*       given, the parts the host was written from, and what it returned. *)
(*   calls     : direct calls of the methods of DatabaseManager by a       *)
(*       caller other than the binder: the method, its argument, where the *)
(*       call is suspended and how it ended.                               *)
(*   indexes   : the indexes of each database of the server that has any,  *)
(*       as <<collection, key>> pairs in the order they were created.      *)
(*   users     : the users collection of each tenant database that has    *)
(*       one, as the roles of its documents in the order of creation.      *)
(*   ct        : the run of createTenant in progress or last ended: where  *)
(*       it is suspended, its locals, the record it created, its response. *)
(*   auth      : for each request, the run of the /api/auth handler that   *)
(*       follows the binder: the handler, the connection it queried the    *)
(*       users collection on, the status it answered.                      *)
(***************************************************************************)
VARIABLES masterConnection, connections, handles, tenants,
          pc, frame, req, res, nextCalls, obs,
          closer, sa, probe, calls, indexes, users, ct, auth

vars == << masterConnection, connections, handles, tenants,
           pc, frame, req, res, nextCalls, obs,
           closer, sa, probe, calls, indexes, users, ct, auth >>

direct == << probe, calls >>

admin == << indexes, users, ct, auth >>

registry == << masterConnection, connections, handles >>
requests == << pc, frame, req, res, nextCalls, obs >>

Requests == 1..MaxRequests
Calls == 1..MaxCalls

(***************************************************************************)
(* The Map this.connections.                                               *)
(***************************************************************************)
ConnectionsHas(id) == \E i \in 1..Len(connections) : connections[i].id = id

ConnectionsGet(id) ==
  IF ConnectionsHas(id)
  THEN connections[CHOOSE i \in 1..Len(connections) : connections[i].id = id].conn
  ELSE NoConn

\* Map.prototype.set: an existing key keeps its place, a new key goes last
ConnectionsSet(id, conn) ==
  IF ConnectionsHas(id)
  THEN [i \in 1..Len(connections) |->
          IF connections[i].id = id THEN [id |-> id, conn |-> conn]
          ELSE connections[i]]
  ELSE Append(connections, [id |-> id, conn |-> conn])

\* getTenantDB without its connections.set: the connection is returned but
\* never cached
StoreConnection_Dropped(id, conn) == connections

\* this.connections.set(tenantId, connection) of getTenantDB
StoreConnection(id, conn) == ConnectionsSet(id, conn)

(***************************************************************************)
(* mongoose.createConnection and Connection.close, as far as the registry  *)
(* can tell them apart.                                                    *)
(***************************************************************************)
TenantDbName(tenantId) == TenantDbPrefix \o tenantId

NewHandle == Len(handles) + 1

Opened(dbName) == Append(handles, [db |-> dbName, open |-> TRUE])

Closed(conn) == [handles EXCEPT ![conn].open = FALSE]

IsOpen(conn) == conn # NoConn /\ handles[conn].open

(***************************************************************************)
(* The Tenant collection.                                                  *)
(***************************************************************************)
TenantDoc(t) == [id |-> t, subdomain |-> tenants[t].subdomain,
                 isActive |-> tenants[t].isActive]

\* the query without its isActive filter
FindOneActiveTenant_AnyFlag(subdomain) ==
  LET found == {t \in TenantRecIds : /\ tenants[t].exists
                                     /\ tenants[t].subdomain = subdomain}
  IN  IF found = {} THEN NullTenant ELSE TenantDoc(CHOOSE t \in found : TRUE)

\* Tenant.findOne({ subdomain: tenantSubdomain, isActive: true })
FindOneActiveTenant(subdomain) ==
  LET found == {t \in TenantRecIds : /\ tenants[t].exists
                                     /\ tenants[t].subdomain = subdomain
                                     /\ tenants[t].isActive}
  IN  IF found = {} THEN NullTenant ELSE TenantDoc(CHOOSE t \in found : TRUE)

\* the active record that carries a subdomain, as the collection holds it
ActiveDoc(subdomain) ==
  IF \E t \in TenantRecIds : /\ tenants[t].exists
                             /\ tenants[t].subdomain = subdomain
                             /\ tenants[t].isActive
  THEN TenantDoc(CHOOSE t \in TenantRecIds : /\ tenants[t].exists
                                             /\ tenants[t].subdomain = subdomain
                                             /\ tenants[t].isActive)
  ELSE NullTenant

\* what the collection holds for a subdomain, whatever the query asks
LookupView(subdomain) ==
  IF \E t \in TenantRecIds : /\ tenants[t].exists
                             /\ tenants[t].subdomain = subdomain
                             /\ tenants[t].isActive
  THEN "active"
  ELSE IF \E t \in TenantRecIds : /\ tenants[t].exists
                                  /\ tenants[t].subdomain = subdomain
       THEN "inactive"
       ELSE "absent"

(***************************************************************************)
(* Responses of the binder.                                                *)
(***************************************************************************)
TenantNotFoundResponse ==
  [status |-> 404, code |-> "TENANT_NOT_FOUND",
   message |-> "Tenant not found or inactive"]

TenantResolutionErrorResponse ==
  [status |-> 500, code |-> "TENANT_RESOLUTION_ERROR",
   message |-> "Internal server error in tenant resolution"]

(***************************************************************************)
(* Initial state: a fresh process (constructor of DatabaseManager) in      *)
(* front of a master database that already holds two active tenants.       *)
(***************************************************************************)
NoFrame == [tenantSubdomain |-> NoString, tenantModel |-> NoConn,
            tenant |-> NullTenant, tenantId |-> NoString]
NoReq == [host |-> NoString, path |-> NoString, db |-> NoConn,
          tenant |-> NullTenant, tenantId |-> NoString]
NoObs == [masterInits |-> 0, lookups |-> 0, lookupSaw |-> "none",
          lookupDoc |-> NullTenant, gtCalls |-> << >>, gtCreated |-> FALSE,
          sent |-> 0, error |-> "none"]
IdleCloser == [pc |-> "idle", idx |-> 0, cur |-> NoConn, attempted |-> {}]
IdleProbe == [label |-> << >>, rest |-> << >>, port |-> << >>, host |-> << >>,
              done |-> FALSE, result |-> << >>]
NoCall == [op |-> "none", arg |-> NoString, pc |-> "idle", cur |-> NoConn,
           value |-> NoConn, error |-> "none", failed |-> FALSE]
IdleCt == [pc |-> "idle", baseSubdomain |-> NoString, subdomain |-> NoString,
           counter |-> 0, emailExists |-> FALSE,
           tenant |-> "none", cur |-> NoConn, status |-> 0]
NoTenantRecord == [exists |-> FALSE, subdomain |-> NoString, isActive |-> FALSE]
NoAuth == [handler |-> "none", pc |-> "idle", queried |-> NoConn, status |-> 0]

\* the handlers and the callers before any of them has run
FreshHandlers ==
  /\ pc = [r \in Requests |-> "idle"]
  /\ frame = [r \in Requests |-> NoFrame]
  /\ req = [r \in Requests |-> NoReq]
  /\ res = [r \in Requests |-> NoResponse]
  /\ nextCalls = [r \in Requests |-> 0]
  /\ obs = [r \in Requests |-> NoObs]
  /\ closer = IdleCloser
  /\ sa = "idle"
  /\ calls = [c \in Calls |-> NoCall]
  /\ indexes = << >>
  /\ users = << >>
  /\ ct = IdleCt
  /\ auth = [r \in Requests |-> NoAuth]

\* the process after construction, nothing called yet; the Tenant
\* collection holds the records of acme and beta
Fresh ==
  /\ masterConnection = NoConn
  /\ connections = << >>
  /\ handles = << >>
  /\ tenants = [t \in TenantRecIds |->
                  IF t = "t1"
                  THEN [exists |-> TRUE, subdomain |-> ACME, isActive |-> TRUE]
                  ELSE IF t = "t2"
                  THEN [exists |-> TRUE, subdomain |-> BETA, isActive |-> TRUE]
                  ELSE NoTenantRecord]
  /\ FreshHandlers

Init == Fresh /\ probe = IdleProbe



(***************************************************************************)
(* tenantMiddleware (src/middleware/tenant.js).  Its awaits are            *)
(* initializeMasterDB (line 44), Tenant.findOne (line 56) and getTenantDB  *)
(* (line 70), which itself awaits createConnection only on a cache miss.   *)
(* The locals of a run (frame) are gone once it has returned.              *)
(***************************************************************************)
\* the routing test without its path clause
IsMasterRoute_HostOnly(tenantSubdomain, path) == tenantSubdomain = NoString

\* !tenantSubdomain || req.path.startsWith('/api/super-admin')
IsMasterRoute(tenantSubdomain, path) ==
  tenantSubdomain = NoString \/ StartsWith(path, AdminPrefix)

\* req.db = dbManager.getMasterConnection(); req.tenant = null
BindMaster(rq, conn) == [rq EXCEPT !.db = conn, !.tenant = NullTenant]

\* the binding without req.tenant = tenant
BindTenant_NoRecord(rq, tenant, conn) ==
  [rq EXCEPT !.db = conn, !.tenantId = tenant.subdomain]

\* the binding with req.db taken from the master slot instead of getTenantDB
BindTenant_Master(rq, tenant, conn) ==
  [rq EXCEPT !.tenant = tenant, !.db = masterConnection,
             !.tenantId = tenant.subdomain]

\* req.tenant = tenant; req.db = tenantDB; req.tenantId = tenant.subdomain
BindTenant(rq, tenant, conn) ==
  [rq EXCEPT !.tenant = tenant, !.db = conn, !.tenantId = tenant.subdomain]

\* if (tenant) instead of if (!tenant)
TenantMissing_Inverted(tenant) == tenant # NullTenant

\* if (!tenant)
TenantMissing(tenant) == tenant = NullTenant

\* the argument the binder hands to getTenantDB
TenantDbKey(tenantSubdomain, tenant) == tenant.subdomain

\* getTenantDB without its test of the identifier
TenantIdMissing_Never(tenantId) == FALSE

\* getTenantDB: if (!tenantId) throw
TenantIdMissing(tenantId) == tenantId = NoString

\* getTenantDB without its cache: every call creates a connection
CacheHit_Never(tenantId) == FALSE

\* getTenantDB: this.connections.has(tenantId)
CacheHit(tenantId) == ConnectionsHas(tenantId)

\* the run ends with a response and without next()
Respond(r, rq, ob, response) ==
  /\ req' = [req EXCEPT ![r] = rq]
  /\ frame' = [frame EXCEPT ![r] = NoFrame]
  /\ obs' = [obs EXCEPT ![r] = [ob EXCEPT !.sent = @ + 1]]
  /\ res' = [res EXCEPT ![r] = response]
  /\ pc' = [pc EXCEPT ![r] = "done"]
  /\ UNCHANGED nextCalls

\* an error with this message is thrown inside the try block
Thrown(ob, message) == [ob EXCEPT !.error = message]

\* the catch block answering with the message of the error it caught
Caught_LeaksError(r, rq, ob) ==
  Respond(r, rq, ob, [TenantResolutionErrorResponse EXCEPT !.message = ob.error])

\* the catch block: log the error, answer 500
Caught(r, rq, ob) == Respond(r, rq, ob, TenantResolutionErrorResponse)

\* next() without the return: the run goes on to answer as well
Proceed_ThenResponds(r, rq, ob) ==
  /\ req' = [req EXCEPT ![r] = rq]
  /\ frame' = [frame EXCEPT ![r] = NoFrame]
  /\ obs' = [obs EXCEPT ![r] = [ob EXCEPT !.sent = @ + 1]]
  /\ nextCalls' = [nextCalls EXCEPT ![r] = @ + 1]
  /\ res' = [res EXCEPT ![r] = TenantNotFoundResponse]
  /\ pc' = [pc EXCEPT ![r] = "done"]

\* next()
Proceed(r, rq, ob) ==
  /\ req' = [req EXCEPT ![r] = rq]
  /\ frame' = [frame EXCEPT ![r] = NoFrame]
  /\ obs' = [obs EXCEPT ![r] = ob]
  /\ nextCalls' = [nextCalls EXCEPT ![r] = @ + 1]
  /\ pc' = [pc EXCEPT ![r] = "done"]
  /\ UNCHANGED res

\* suspended at an await
Suspend(r, rq, fr, ob, at) ==
  /\ req' = [req EXCEPT ![r] = rq]
  /\ frame' = [frame EXCEPT ![r] = fr]
  /\ obs' = [obs EXCEPT ![r] = ob]
  /\ pc' = [pc EXCEPT ![r] = at]
  /\ UNCHANGED << res, nextCalls >>

\* lines 47-59, run once the master slot is set: mc is the slot's value
Route(r, rq, fr, ob, mc) ==
  IF mc = NoConn
  THEN Caught(r, rq, Thrown(ob, MasterNotInitialized))  \* getMasterConnection() throws
  ELSE IF IsMasterRoute(fr.tenantSubdomain, rq.path)
       THEN Proceed(r, BindMaster(rq, mc), ob)
       ELSE Suspend(r, rq, [fr EXCEPT !.tenantModel = mc],
                    [ob EXCEPT !.lookups = @ + 1], "awaitLookup")

\* lines 39-45: a request arrives
ReqStart(r, host, path) ==
  /\ pc[r] = "idle"
  /\ \A q \in Requests : q < r => pc[q] # "idle"   \* numbered as they arrive
  /\ LET rq == [req[r] EXCEPT !.host = host, !.path = path]
         fr == [frame[r] EXCEPT !.tenantSubdomain = extractTenantFromHost(host)]
     IN  IF masterConnection = NoConn
         THEN Suspend(r, rq, fr, [obs[r] EXCEPT !.masterInits = @ + 1],
                      "awaitMaster")
         ELSE Route(r, rq, fr, obs[r], masterConnection)
  /\ UNCHANGED << registry, tenants, closer, sa, direct, admin >>

\* initializeMasterDB: createConnection resolved, line 15 stores the handle
ReqMasterConnected(r) ==
  /\ pc[r] = "awaitMaster"
  /\ handles' = Opened(MasterDbName)
  /\ masterConnection' = NewHandle
  /\ Route(r, req[r], frame[r], obs[r], masterConnection')
  /\ UNCHANGED << connections, tenants, closer, sa, direct, admin >>

\* initializeMasterDB: createConnection rejected, rethrown, caught at line 78
ReqMasterFailed(r) ==
  /\ pc[r] = "awaitMaster"
  /\ Caught(r, req[r], Thrown(obs[r], ClientError))
  /\ UNCHANGED << registry, tenants, closer, sa, direct, admin >>

\* lines 61-77: Tenant.findOne resolved (the query is answered only on an
\* open connection)
ReqLookupReturned(r) ==
  /\ pc[r] = "awaitLookup"
  /\ IsOpen(frame[r].tenantModel)
  /\ LET sub == frame[r].tenantSubdomain
         tenant == FindOneActiveTenant(sub)
         key == TenantDbKey(sub, tenant)
         inGet == [frame[r] EXCEPT !.tenant = tenant, !.tenantId = key]
         seen == [obs[r] EXCEPT !.lookupSaw = LookupView(sub),
                                !.lookupDoc = ActiveDoc(sub)]
         called == [seen EXCEPT !.gtCalls = Append(@, key)]
     IN  IF TenantMissing(tenant)
         THEN Respond(r, req[r], seen, TenantNotFoundResponse)
         ELSE IF TenantIdMissing(key)
              THEN Caught(r, req[r], Thrown(called, TenantIdRequired))
              ELSE IF CacheHit(key)
                   THEN Proceed(r, BindTenant(req[r], tenant, ConnectionsGet(key)),
                                called)
                   ELSE Suspend(r, req[r], inGet,
                                [called EXCEPT !.gtCreated = TRUE],
                                "awaitTenantConn")
  /\ UNCHANGED << registry, tenants, closer, sa, direct, admin >>

\* Tenant.findOne rejected
ReqLookupFailed(r) ==
  /\ pc[r] = "awaitLookup"
  /\ Caught(r, req[r], Thrown(obs[r], ClientError))
  /\ UNCHANGED << registry, tenants, closer, sa, direct, admin >>

\* getTenantDB lines 44-54 and the binder's lines 72-77: createConnection
\* resolved
ReqTenantConnected(r) ==
  /\ pc[r] = "awaitTenantConn"
  /\ handles' = Opened(TenantDbName(frame[r].tenantId))
  /\ connections' = StoreConnection(frame[r].tenantId, NewHandle)
  /\ Proceed(r, BindTenant(req[r], frame[r].tenant, NewHandle), obs[r])
  /\ UNCHANGED << masterConnection, tenants, closer, sa, direct, admin >>

\* getTenantDB lines 55-58: createConnection rejected
ReqTenantConnectFailed(r) ==
  /\ pc[r] = "awaitTenantConn"
  /\ Caught(r, req[r], Thrown(obs[r], ClientError))
  /\ UNCHANGED << registry, tenants, closer, sa, direct, admin >>

(***************************************************************************)
(* registerSuperAdmin and loginSuperAdmin (superAdminController.js lines   *)
(* 22-27 and 86-90) start with the same lazy initialization of the master  *)
(* connection; the SuperAdmin queries that follow touch nothing modelled,  *)
(* so the handler is over once the master connection is there.             *)
(***************************************************************************)
SuperAdminStart ==
  /\ sa = "idle"
  /\ sa' = IF masterConnection = NoConn THEN "awaitMaster" ELSE "idle"
  /\ UNCHANGED << registry, tenants, requests, closer, direct, admin >>

SuperAdminMasterConnected ==
  /\ sa = "awaitMaster"
  /\ handles' = Opened(MasterDbName)
  /\ masterConnection' = NewHandle
  /\ sa' = "idle"
  /\ UNCHANGED << connections, tenants, requests, closer, direct, admin >>

SuperAdminMasterFailed ==
  /\ sa = "awaitMaster"
  /\ sa' = "idle"
  /\ UNCHANGED << registry, tenants, requests, closer, direct, admin >>

(***************************************************************************)
(* deactivateTenant and updateTenant (superAdminController.js): one        *)
(* findByIdAndUpdate on the master connection.  Without a usable master    *)
(* connection the handler answers 500 and changes nothing.                 *)
(***************************************************************************)
\* what req.body of updateTenant may ask for
UpdateBodies == {[field |-> "isActive", value |-> TRUE]}

\* the unique index on subdomain
SubdomainTaken(t, subdomain) ==
  \E u \in TenantRecIds \ {t} : tenants[u].exists /\ tenants[u].subdomain = subdomain

DeactivateTenant(t) ==
  /\ IsOpen(masterConnection)
  /\ tenants[t].exists
  /\ tenants' = [tenants EXCEPT ![t].isActive = FALSE]
  /\ UNCHANGED << registry, requests, closer, sa, direct, admin >>

UpdateTenant(t, body) ==
  /\ IsOpen(masterConnection)
  /\ tenants[t].exists
  /\ IF body.field = "isActive"
     THEN tenants' = [tenants EXCEPT ![t].isActive = body.value]
     ELSE /\ ~SubdomainTaken(t, body.value)
          /\ tenants' = [tenants EXCEPT ![t].subdomain = body.value]
  /\ UNCHANGED << registry, requests, closer, sa, direct, admin >>

(***************************************************************************)
(* closeAllConnections (database.js lines 158-175).  The for-of loop reads *)
(* the live Map: closer.idx is the entry whose close() is awaited, and     *)
(* closer.attempted the connections close() has been called on.            *)
(***************************************************************************)
\* lines 165-171, after the loop: clear the Map, then close the master
\* connection if the slot is set; otherwise return
CloseAllAfterLoop(attempted) ==
  /\ connections' = << >>
  /\ IF masterConnection # NoConn
     THEN closer' = [pc |-> "closingMaster", idx |-> 0,
                     cur |-> masterConnection,
                     attempted |-> attempted \cup {masterConnection}]
     ELSE closer' = IdleCloser

\* the loop takes entry i of the Map and awaits its close()
CloseAllVisit(i, attempted) ==
  /\ closer' = [pc |-> "closingTenant", idx |-> i, cur |-> connections[i].conn,
                attempted |-> attempted \cup {connections[i].conn}]
  /\ UNCHANGED connections

CloseAllStart ==
  /\ closer.pc = "idle"
  /\ IF Len(connections) >= 1
     THEN CloseAllVisit(1, {})
     ELSE CloseAllAfterLoop({})
  /\ UNCHANGED << masterConnection, handles, tenants, requests, sa, direct, admin >>

\* connection.close() of a tenant connection resolved
CloseAllTenantClosed ==
  /\ closer.pc = "closingTenant"
  /\ handles' = Closed(closer.cur)
  /\ IF closer.idx + 1 <= Len(connections)
     THEN CloseAllVisit(closer.idx + 1, closer.attempted)
     ELSE CloseAllAfterLoop(closer.attempted)
  /\ UNCHANGED << masterConnection, tenants, requests, sa, direct, admin >>

\* connection.close() rejected: the catch block logs and the call returns
CloseAllCloseFailed ==
  /\ closer.pc \in {"closingTenant", "closingMaster"}
  /\ closer' = IdleCloser
  /\ UNCHANGED << registry, tenants, requests, sa, direct, admin >>

\* this.masterConnection.close() resolved
CloseAllMasterClosed ==
  /\ closer.pc = "closingMaster"
  /\ handles' = Closed(closer.cur)
  /\ closer' = IdleCloser
  /\ UNCHANGED << masterConnection, connections, tenants, requests, sa, direct, admin >>

(***************************************************************************)
(* The server: any handler may take its next step at any time.             *)
(***************************************************************************)
Next ==
  \/ \E r \in Requests, in \in Inbound : ReqStart(r, in[1], in[2])
  \/ \E r \in Requests : ReqMasterConnected(r)
  \/ \E r \in Requests : ReqMasterFailed(r)
  \/ \E r \in Requests : ReqLookupReturned(r)
  \/ \E r \in Requests : ReqLookupFailed(r)
  \/ \E r \in Requests : ReqTenantConnected(r)
  \/ \E r \in Requests : ReqTenantConnectFailed(r)
  \/ SuperAdminStart
  \/ SuperAdminMasterConnected
  \/ SuperAdminMasterFailed
  \/ \E t \in TenantRecIds : DeactivateTenant(t)
  \/ \E t \in TenantRecIds, body \in UpdateBodies : UpdateTenant(t, body)
  \/ CloseAllStart
  \/ CloseAllTenantClosed
  \/ CloseAllCloseFailed
  \/ CloseAllMasterClosed

Spec == Init /\ [][Next]_vars


(***************************************************************************)
(* The same server when callers do not overlap: a handler starts only when *)
(* no other is suspended.                                                  *)
(***************************************************************************)
Quiescent ==
  /\ \A r \in Requests : pc[r] \in {"idle", "done"}
  /\ closer.pc = "idle"
  /\ sa = "idle"

SeqNext ==
  \/ Quiescent /\ \E r \in Requests, in \in Inbound : ReqStart(r, in[1], in[2])
  \/ \E r \in Requests : ReqMasterConnected(r)
  \/ \E r \in Requests : ReqMasterFailed(r)
  \/ \E r \in Requests : ReqLookupReturned(r)
  \/ \E r \in Requests : ReqLookupFailed(r)
  \/ \E r \in Requests : ReqTenantConnected(r)
  \/ \E r \in Requests : ReqTenantConnectFailed(r)
  \/ Quiescent /\ SuperAdminStart
  \/ SuperAdminMasterConnected
  \/ SuperAdminMasterFailed
  \/ Quiescent /\ \E t \in TenantRecIds : DeactivateTenant(t)
  \/ Quiescent /\ \E t \in TenantRecIds, body \in UpdateBodies : UpdateTenant(t, body)
  \/ Quiescent /\ CloseAllStart
  \/ CloseAllTenantClosed
  \/ CloseAllCloseFailed
  \/ CloseAllMasterClosed

SeqSpec == Init /\ [][SeqNext]_vars

(***************************************************************************)
(* How a run of the binder ended.                                          *)
(***************************************************************************)
Outcome(r) ==
  IF pc[r] # "done" THEN "UNRESOLVED"
  ELSE IF res[r] = TenantNotFoundResponse THEN "REJECTED"
  ELSE IF res[r] # NoResponse THEN "FAILED"
  ELSE IF nextCalls[r] = 0 THEN "SILENT"
  ELSE IF req[r].tenant = NullTenant THEN "MASTER_BOUND"
  ELSE "TENANT_BOUND"

\* the request's host yields no tenant, or its path is administrative
MasterRouted(r) ==
  \/ extractTenantFromHost(req[r].host) = NoString
  \/ StartsWith(req[r].path, AdminPrefix)

Handles == 1..Len(handles)


(***************************************************************************)
(* extractTenantFromHost called directly (tenant.js lines 4-34), on hosts  *)
(* written as <text><rest><port>: <text> is any string of at most          *)
(* MaxLabelLen characters, <rest> a domain suffix or a whole bare host.    *)
(***************************************************************************)
LabelChars == {"a", "w", "A", "1", ".", ":"}

RECURSIVE StringsUpTo(_)
StringsUpTo(n) ==
  IF n = 0 THEN {<< >>}
  ELSE LET shorter == StringsUpTo(n - 1)
       IN  shorter \cup {Append(t, ch) : t \in shorter, ch \in LabelChars}

DotExampleCom == <<".","e","x","a","m","p","l","e",".","c","o","m">>
Localhost == <<"l","o","c","a","l","h","o","s","t">>
LoopbackIp == <<"1","2","7",".","0",".","0",".","1">>
Port3000 == <<":","3","0","0","0">>

\* the three domains the patterns of lines 12, 13 and 17 accept
TenantDomains == {DotLocalhost, DotLvhMe, DotMyappCom}
HostRests == TenantDomains \cup {DotExampleCom, Localhost, LoopbackIp, << >>}
HostPorts == {<< >>, Port3000}

Probes ==
  {[label |-> l, rest |-> d, port |-> pt, host |-> l \o d \o pt,
    done |-> FALSE, result |-> << >>] :
     l \in StringsUpTo(MaxLabelLen), d \in HostRests, pt \in HostPorts}

ResolverInit == Fresh /\ probe \in Probes

\* const tenantSubdomain = extractTenantFromHost(host)
ExtractTenant ==
  /\ ~probe.done
  /\ probe' = [probe EXCEPT !.done = TRUE,
                            !.result = extractTenantFromHost(probe.host)]
  /\ UNCHANGED << registry, tenants, requests, closer, sa, calls, admin >>

ResolverNext == ExtractTenant

ResolverSpec == ResolverInit /\ [][ResolverNext]_vars

\* the format of the subdomain field of a Tenant record
\* (match /^[a-z0-9-]+$/, minlength 3, maxlength 30)
SubdomainChars ==
  {"a","b","c","d","e","f","g","h","i","j","k","l","m","n","o","p","q","r","s",
   "t","u","v","w","x","y","z","0","1","2","3","4","5","6","7","8","9","-"}
SubdomainMinLength == 3
SubdomainMaxLength == 30
IsSubdomainFormat(s) ==
  /\ Len(s) >= SubdomainMinLength
  /\ Len(s) <= SubdomainMaxLength
  /\ \A i \in 1..Len(s) : s[i] \in SubdomainChars

(***************************************************************************)
(* The methods of DatabaseManager called directly (src/config/database.js; *)
(* setup.js and the super-admin handlers call them this way).  Calls may   *)
(* overlap; each is numbered in the order it is made.                      *)
(***************************************************************************)
\* this.connections.delete(tenantId) emptying the whole Map
ConnectionsDelete_Clear(id) == << >>

\* this.connections.delete(tenantId)
ConnectionsDelete(id) ==
  LET Other(e) == e.id # id
  IN  SelectSeq(connections, Other)

\* the tenantId arguments of the direct calls (the last one is falsy)
CallArgs == {ACME, BETA, NoString}

\* the call returns value to its caller
Returned(call, value) ==
  [call EXCEPT !.pc = "returned", !.value = value, !.cur = NoConn]

\* the call ends by throwing to its caller
Raised(call, message) ==
  [call EXCEPT !.pc = "raised", !.error = message, !.cur = NoConn]

\* a catch block that logs and returns
Rethrow_Swallowed(call, message) ==
  [call EXCEPT !.pc = "returned", !.cur = NoConn]

\* catch (error) { console.error(...); throw error; }
Rethrow(call, message) == Raised(call, message)

\* the database client rejected the operation the call awaits
ClientFailed(call) == [call EXCEPT !.failed = TRUE]

\* a caller makes its call: nothing else moves
Begin(c, call) ==
  /\ \A q \in Calls : q < c => calls[q].op # "none"
  /\ calls' = [calls EXCEPT ![c] = call]
  /\ UNCHANGED << registry, tenants, requests, closer, sa, probe, admin >>

\* a suspended call goes on without touching the registry
Resume(c, call) ==
  /\ calls' = [calls EXCEPT ![c] = call]
  /\ UNCHANGED << registry, tenants, requests, closer, sa, probe, admin >>

\* initializeMasterDB, lines 10-15
CallInitializeMasterDB(c) ==
  /\ calls[c].op = "none"
  /\ Begin(c, [NoCall EXCEPT !.op = "initializeMasterDB", !.pc = "connecting"])

\* lines 15-22: createConnection resolved
InitializeMasterConnected(c) ==
  /\ calls[c].op = "initializeMasterDB"
  /\ calls[c].pc = "connecting"
  /\ handles' = Opened(MasterDbName)
  /\ masterConnection' = NewHandle
  /\ calls' = [calls EXCEPT ![c] = Returned(@, NewHandle)]
  /\ UNCHANGED << connections, tenants, requests, closer, sa, probe, admin >>

\* lines 23-26: createConnection rejected
InitializeMasterFailed(c) ==
  /\ calls[c].op = "initializeMasterDB"
  /\ calls[c].pc = "connecting"
  /\ Resume(c, Rethrow(ClientFailed(calls[c]), ClientError))

\* getTenantDB, lines 30-44, down to the await of createConnection
GetTenantDB(id) ==
  LET call == [NoCall EXCEPT !.op = "getTenantDB", !.arg = id]
  IN  IF TenantIdMissing(id) THEN Raised(call, TenantIdRequired)
      ELSE IF CacheHit(id) THEN Returned(call, ConnectionsGet(id))
      ELSE [call EXCEPT !.pc = "connecting"]

CallGetTenantDB(c, id) ==
  /\ calls[c].op = "none"
  /\ Begin(c, GetTenantDB(id))

\* createTenantDB, lines 62-67, down to the first await that suspends
CreateTenantDB(id) ==
  LET call == [NoCall EXCEPT !.op = "createTenantDB", !.arg = id]
  IN  IF TenantIdMissing(id) THEN Rethrow(call, TenantIdRequired)
      ELSE IF CacheHit(id)
           THEN [call EXCEPT !.pc = "indexing", !.cur = ConnectionsGet(id)]
           ELSE [call EXCEPT !.pc = "connecting"]

CallCreateTenantDB(c, id) ==
  /\ calls[c].op = "none"
  /\ Begin(c, CreateTenantDB(id))

\* getTenantDB lines 44-54: createConnection resolved
TenantConnected(c) ==
  /\ calls[c].op \in {"getTenantDB", "createTenantDB"}
  /\ calls[c].pc = "connecting"
  /\ handles' = Opened(TenantDbName(calls[c].arg))
  /\ connections' = StoreConnection(calls[c].arg, NewHandle)
  /\ calls' = [calls EXCEPT ![c] =
                 IF @.op = "getTenantDB" THEN Returned(@, NewHandle)
                 ELSE [@ EXCEPT !.pc = "indexing", !.cur = NewHandle]]
  /\ UNCHANGED << masterConnection, tenants, requests, closer, sa, probe, admin >>

\* getTenantDB lines 55-58 (and createTenantDB lines 71-74)
TenantConnectFailed(c) ==
  /\ calls[c].op \in {"getTenantDB", "createTenantDB"}
  /\ calls[c].pc = "connecting"
  /\ Resume(c, Rethrow(ClientFailed(calls[c]), ClientError))

\* initializeTenantCollections, lines 81-130: the collections and their
\* indexes, in the order createIndex is called on them
TenantIndexes ==
  << << "users", "email_1" >>, << "users", "role_1" >>,
     << "users", "isActive_1" >>, << "users", "createdAt_-1" >>,
     << "requirements", "createdBy_1" >>, << "requirements", "assignedTo_1" >>,
     << "requirements", "status_1" >>, << "requirements", "dueDate_1" >>,
     << "requirements", "createdAt_-1" >>,
     << "jobdescriptions", "requirementId_1" >>,
     << "jobdescriptions", "createdBy_1" >>,
     << "jobdescriptions", "isActive_1" >>,
     << "jobdescriptions", "shareableLink_1" >>,
     << "jobdescriptions", "createdAt_-1" >>,
     << "applications", "jobDescriptionId_1" >>,
     << "applications", "candidateId_1" >>,
     << "applications", "status_1" >>, << "applications", "appliedAt_-1" >>,
     << "candidates", "email_1" >>, << "candidates", "phone_1" >>,
     << "candidates", "skills_1" >>, << "candidates", "experience_1" >>,
     << "candidates", "createdAt_-1" >> >>

\* which createIndex call is the one that is rejected, when one is
IndexFailPoints == {1, Len(TenantIndexes)}

\* the indexes database dbName has (none before its first createIndex)
IndexesOf(dbName) ==
  IF dbName \in DOMAIN indexes THEN indexes[dbName] ELSE << >>

RECURSIVE CreateIndexes(_, _, _)
\* the first n createIndex calls of the two loops, lines 132-139;
\* coll.createIndex(index), line 137, leaves an index that exists with the
\* same key as it is and creates a new one otherwise
CreateIndexes(existing, list, n) ==
  IF n = 0 THEN existing
  ELSE LET before == CreateIndexes(existing, list, n - 1)
       IN  IF \E i \in 1..Len(before) : before[i] = list[n]
           THEN before
           ELSE Append(before, list[n])

\* initializeTenantCollections(connection) as far as its n-th createIndex
InitializeTenantCollections(conn, n) ==
  IF n = 0 THEN indexes
  ELSE (handles[conn].db :>
          CreateIndexes(IndexesOf(handles[conn].db), TenantIndexes, n))
       @@ indexes

\* createTenantDB lines 67-70: every createIndex of
\* initializeTenantCollections resolved (on an open connection)
TenantIndexed(c) ==
  /\ calls[c].pc = "indexing"
  /\ IsOpen(calls[c].cur)
  /\ indexes' = InitializeTenantCollections(calls[c].cur, Len(TenantIndexes))
  /\ calls' = [calls EXCEPT ![c] = Returned(@, @.cur)]
  /\ UNCHANGED << registry, tenants, requests, closer, sa, probe, users, ct, auth >>

\* lines 142-145 and 71-74: a createIndex rejected (the first one, when the
\* connection is closed), after the ones before it were created
TenantIndexFailed(c) ==
  /\ calls[c].pc = "indexing"
  /\ \E k \in IndexFailPoints :
       indexes' = InitializeTenantCollections(
                    calls[c].cur, IF IsOpen(calls[c].cur) THEN k - 1 ELSE 0)
  /\ calls' = [calls EXCEPT ![c] = Rethrow(ClientFailed(@), ClientError)]
  /\ UNCHANGED << registry, tenants, requests, closer, sa, probe, users, ct, auth >>

\* closeTenantConnection, lines 149-151, down to the await of close()
CloseTenantConnection(id) ==
  LET call == [NoCall EXCEPT !.op = "closeTenantConnection", !.arg = id]
  IN  IF ConnectionsHas(id)
      THEN [call EXCEPT !.pc = "closing", !.cur = ConnectionsGet(id)]
      ELSE Returned(call, NoConn)

CallCloseTenantConnection(c, id) ==
  /\ calls[c].op = "none"
  /\ Begin(c, CloseTenantConnection(id))

\* lines 151-153: close() resolved
TenantClosed(c) ==
  /\ calls[c].pc = "closing"
  /\ handles' = Closed(calls[c].cur)
  /\ connections' = ConnectionsDelete(calls[c].arg)
  /\ calls' = [calls EXCEPT ![c] = Returned(@, NoConn)]
  /\ UNCHANGED << masterConnection, tenants, requests, closer, sa, probe, admin >>

\* line 151: close() rejected; nothing catches it
TenantCloseFailed(c) ==
  /\ calls[c].pc = "closing"
  /\ Resume(c, Raised(ClientFailed(calls[c]), ClientError))

\* getMasterConnection without its test of the slot
GetMasterConnection_Unchecked(call) == Returned(call, masterConnection)

\* getMasterConnection, lines 178-183
GetMasterConnection(call) ==
  IF masterConnection = NoConn
  THEN Raised(call, MasterNotInitialized)
  ELSE Returned(call, masterConnection)

CallGetMasterConnection(c) ==
  /\ calls[c].op = "none"
  /\ Begin(c, GetMasterConnection([NoCall EXCEPT !.op = "getMasterConnection"]))

RegistryNext ==
  \/ \E c \in Calls : CallInitializeMasterDB(c)
  \/ \E c \in Calls : InitializeMasterConnected(c)
  \/ \E c \in Calls : InitializeMasterFailed(c)
  \/ \E c \in Calls, id \in CallArgs : CallGetTenantDB(c, id)
  \/ \E c \in Calls, id \in CallArgs : CallCreateTenantDB(c, id)
  \/ \E c \in Calls : TenantConnected(c)
  \/ \E c \in Calls : TenantConnectFailed(c)
  \/ \E c \in Calls : TenantIndexed(c)
  \/ \E c \in Calls : TenantIndexFailed(c)
  \/ \E c \in Calls, id \in CallArgs : CallCloseTenantConnection(c, id)
  \/ \E c \in Calls : TenantClosed(c)
  \/ \E c \in Calls : TenantCloseFailed(c)
  \/ \E c \in Calls : CallGetMasterConnection(c)
  \/ CloseAllStart
  \/ CloseAllTenantClosed
  \/ CloseAllCloseFailed
  \/ CloseAllMasterClosed

RegistrySpec == Init /\ [][RegistryNext]_vars

(***************************************************************************)
(* createTenantDB called again and again, each call after the one before   *)
(* it has ended.                                                           *)
(***************************************************************************)
ProvisionTenantDB(c, id) ==
  /\ \A q \in Calls : calls[q].pc \in {"idle", "returned", "raised"}
  /\ CallCreateTenantDB(c, id)

ProvisionNext ==
  \/ \E c \in Calls, id \in CallArgs : ProvisionTenantDB(c, id)
  \/ \E c \in Calls : TenantConnected(c)
  \/ \E c \in Calls : TenantConnectFailed(c)
  \/ \E c \in Calls : TenantIndexed(c)
  \/ \E c \in Calls : TenantIndexFailed(c)

ProvisionSpec == Init /\ [][ProvisionNext]_vars

(***************************************************************************)
(* createTenant (superAdminController.js lines 168-298).  Its awaits are   *)
(* the Tenant.findOne of the subdomain loop (line 192), the findOne of the *)
(* e-mail check (199), Tenant.create (212), createTenantDB (239, which     *)
(* awaits createConnection and the createIndex calls), getTenantDB (242),  *)
(* User.create (245) and sendEmail (263).  A rejection of any of them is   *)
(* caught at line 290 and answered 500.                                    *)
(***************************************************************************)
RECURSIVE Decimal(_)
\* the decimal digits of counter, as the template string writes them
Decimal(n) ==
  LET digits == << "0", "1", "2", "3", "4", "5", "6", "7", "8", "9" >>
  IN  IF n < 10 THEN << digits[n + 1] >>
      ELSE Decimal(n \div 10) \o << digits[(n % 10) + 1] >>

\* if (s.length > 30) s = s.substring(0, 30), lines 187 and 194
Truncate(s) ==
  IF Len(s) > 30 THEN SubSeq(s, 1, 30) ELSE s

\* lines 193-194: `${baseSubdomain}-${counter}`, cut to 30 characters
Candidate(baseSubdomain, counter) ==
  Truncate(baseSubdomain \o << "-" >> \o Decimal(counter))

\* Tenant.findOne({ subdomain }): whether a record carries the subdomain,
\* active or not
FindOneTenant(subdomain) ==
  \E t \in TenantRecIds : tenants[t].exists /\ tenants[t].subdomain = subdomain

\* the handler answers with status and returns
CreateTenantAnswer(run, status) ==
  [run EXCEPT !.pc = "done", !.status = status, !.cur = NoConn]

\* lines 169-192, down to the first findOne of the loop; slug is what
\* slugify made of req.body.companyName, emailExists whether a record
\* carries req.body.email.  getMasterConnection throws without a master
\* connection.
CreateTenantStart(slug, emailExists) ==
  /\ ct.pc \in {"idle", "done"}
  /\ \E t \in TenantRecIds : ~tenants[t].exists
  /\ ct' = IF masterConnection = NoConn
           THEN CreateTenantAnswer(IdleCt, 500)
           ELSE [IdleCt EXCEPT !.pc = "checkSubdomain",
                               !.baseSubdomain = Truncate(slug),
                               !.subdomain = Truncate(slug),
                               !.counter = 1,
                               !.emailExists = emailExists]
  /\ UNCHANGED << registry, tenants, requests, closer, sa, direct,
                  indexes, users, auth >>

\* lines 192-199: the findOne of the loop condition resolved; a record
\* found means another candidate and another findOne
CreateTenantSubdomainChecked ==
  /\ ct.pc = "checkSubdomain"
  /\ IsOpen(masterConnection)
  /\ ct.counter <= MaxCounter
  /\ ct' = IF FindOneTenant(ct.subdomain)
           THEN [ct EXCEPT !.subdomain = Candidate(ct.baseSubdomain, ct.counter),
                           !.counter = @ + 1]
           ELSE [ct EXCEPT !.pc = "checkEmail"]
  /\ UNCHANGED << registry, tenants, requests, closer, sa, direct,
                  indexes, users, auth >>

\* lines 199-228: the findOne of the e-mail check resolved
CreateTenantEmailChecked ==
  /\ ct.pc = "checkEmail"
  /\ IsOpen(masterConnection)
  /\ ct' = IF ct.emailExists
           THEN CreateTenantAnswer(ct, 400)
           ELSE [ct EXCEPT !.pc = "creating"]
  /\ UNCHANGED << registry, tenants, requests, closer, sa, direct,
                  indexes, users, auth >>

\* lines 212-239: Tenant.create settled.  The unique index rejects a
\* subdomain a record has taken since the loop; otherwise the record exists
\* from here on, and createTenantDB starts.
CreateTenantCreated ==
  /\ ct.pc = "creating"
  /\ IsOpen(masterConnection)
  /\ IF FindOneTenant(ct.subdomain)
     THEN /\ ct' = CreateTenantAnswer(ct, 500)
          /\ UNCHANGED tenants
     ELSE LET call == CreateTenantDB(ct.subdomain)
              NewTenantId == CHOOSE t \in TenantRecIds : ~tenants[t].exists
          IN  /\ tenants' = [tenants EXCEPT ![NewTenantId] =
                               [exists |-> TRUE, subdomain |-> ct.subdomain,
                                isActive |-> TRUE]]
              /\ ct' = IF call.pc = "raised"
                       THEN CreateTenantAnswer(
                              [ct EXCEPT !.tenant = NewTenantId], 500)
                       ELSE [ct EXCEPT !.tenant = NewTenantId,
                                       !.pc = call.pc,
                                       !.cur = call.cur]
  /\ UNCHANGED << registry, requests, closer, sa, direct,
                  indexes, users, auth >>

\* getTenantDB lines 44-54, called by createTenantDB (line 64) or, when the
\* cache has lost the entry since, by the handler (line 242)
CreateTenantConnected ==
  /\ ct.pc \in {"connecting", "reconnecting"}
  /\ handles' = Opened(TenantDbName(ct.subdomain))
  /\ connections' = StoreConnection(ct.subdomain, NewHandle)
  /\ ct' = [ct EXCEPT !.pc = IF @ = "connecting" THEN "indexing"
                             ELSE "creatingUser",
                      !.cur = NewHandle]
  /\ UNCHANGED << masterConnection, tenants, requests, closer, sa, direct,
                  indexes, users, auth >>

\* lines 239-245: createTenantDB returned; getTenantDB(subdomain) again
CreateTenantIndexed ==
  /\ ct.pc = "indexing"
  /\ IsOpen(ct.cur)
  /\ indexes' = InitializeTenantCollections(ct.cur, Len(TenantIndexes))
  /\ LET call == GetTenantDB(ct.subdomain)
     IN  ct' = IF call.pc = "returned"
               THEN [ct EXCEPT !.pc = "creatingUser", !.cur = call.value]
               ELSE [ct EXCEPT !.pc = "reconnecting", !.cur = NoConn]
  /\ UNCHANGED << registry, tenants, requests, closer, sa, direct,
                  users, auth >>

\* lines 245-263: User.create resolved
CreateTenantUserCreated ==
  /\ ct.pc = "creatingUser"
  /\ IsOpen(ct.cur)
  /\ LET db == handles[ct.cur].db
         existing == IF db \in DOMAIN users THEN users[db] ELSE << >>
     IN  users' = (db :> Append(existing, "company_admin")) @@ users
  /\ ct' = [ct EXCEPT !.pc = "sendingEmail"]
  /\ UNCHANGED << registry, tenants, requests, closer, sa, direct,
                  indexes, auth >>

\* lines 263-289: sendEmail resolved
CreateTenantEmailSent ==
  /\ ct.pc = "sendingEmail"
  /\ ct' = CreateTenantAnswer(ct, 201)
  /\ UNCHANGED << registry, tenants, requests, closer, sa, direct,
                  indexes, users, auth >>

\* lines 290-297: the operation the handler awaits rejected (a createIndex
\* after the ones before it were created)
CreateTenantFailed ==
  /\ ct.pc \in {"checkSubdomain", "checkEmail", "creating", "connecting",
                "indexing", "reconnecting", "creatingUser", "sendingEmail"}
  /\ IF ct.pc = "indexing"
     THEN \E k \in IndexFailPoints :
            indexes' = InitializeTenantCollections(
                         ct.cur, IF IsOpen(ct.cur) THEN k - 1 ELSE 0)
     ELSE UNCHANGED indexes
  /\ ct' = CreateTenantAnswer(ct, 500)
  /\ UNCHANGED << registry, tenants, requests, closer, sa, direct,
                  users, auth >>

(***************************************************************************)
(* getTenantStats (superAdminController.js lines 484-530), reached on the  *)
(* route /api/super-admin/tenants/:id/stats, which the binder binds to the *)
(* master connection with req.tenant null.  Its one access to the registry *)
(* is the getTenantDB of line 488; the counts that follow only read.       *)
(***************************************************************************)
\* req.params.id: the _id of a tenant record, as the string of the URL
TenantIdString(t) ==
  IF t = "t1" THEN << "t", "1" >>
  ELSE IF t = "t2" THEN << "t", "2" >>
  ELSE << "t", "3" >>

\* line 488: req.tenant ? req.tenant.subdomain : tenantId
StatsDbKey(tenant, tenantId) ==
  IF tenant # NullTenant THEN tenant.subdomain ELSE tenantId

CallGetTenantStats(c, t) ==
  /\ calls[c].op = "none"
  /\ Begin(c, GetTenantDB(StatsDbKey(NullTenant, TenantIdString(t))))


(***************************************************************************)
(* The administrator's console: tenants are created, updated and           *)
(* deactivated in any order, while createTenant is suspended or not.       *)
(***************************************************************************)
\* req.body of updateTenant may carry any field of the record, its
\* subdomain too
RenameBodies == {[field |-> "subdomain", value |-> GHOST]}

\* the company names entered slugify to acme (taken) or ghost (free)
AdminNext ==
  \/ SuperAdminStart
  \/ SuperAdminMasterConnected
  \/ SuperAdminMasterFailed
  \/ \E slug \in {ACME, GHOST}, e \in BOOLEAN : CreateTenantStart(slug, e)
  \/ CreateTenantSubdomainChecked
  \/ CreateTenantEmailChecked
  \/ CreateTenantCreated
  \/ CreateTenantConnected
  \/ CreateTenantIndexed
  \/ CreateTenantUserCreated
  \/ CreateTenantEmailSent
  \/ CreateTenantFailed
  \/ \E t \in TenantRecIds : DeactivateTenant(t)
  \/ \E t \in TenantRecIds, body \in UpdateBodies : UpdateTenant(t, body)
  \/ \E t \in TenantRecIds, body \in RenameBodies : UpdateTenant(t, body)

AdminSpec == Init /\ [][AdminNext]_vars

(***************************************************************************)
(* Tenants are created and their statistics are asked for, in any order.   *)
(***************************************************************************)
StatsNext ==
  \/ SuperAdminStart
  \/ SuperAdminMasterConnected
  \/ SuperAdminMasterFailed
  \/ \E slug \in {ACME, GHOST}, e \in BOOLEAN : CreateTenantStart(slug, e)
  \/ CreateTenantSubdomainChecked
  \/ CreateTenantEmailChecked
  \/ CreateTenantCreated
  \/ CreateTenantConnected
  \/ CreateTenantIndexed
  \/ CreateTenantUserCreated
  \/ CreateTenantEmailSent
  \/ CreateTenantFailed
  \/ \E c \in Calls, t \in TenantRecIds : CallGetTenantStats(c, t)
  \/ \E c \in Calls : TenantConnected(c)
  \/ \E c \in Calls : TenantConnectFailed(c)

StatsSpec == Init /\ [][StatsNext]_vars

(***************************************************************************)
(* The subdomain loop of createTenant on its own, over company names and   *)
(* Tenant collections chosen to meet its cases: a free name, a taken name, *)
(* a taken name whose first numbered candidate is taken too, and names of  *)
(* 30 characters and more.                                                 *)
(***************************************************************************)
Slug30 ==
  << "i", "n", "t", "e", "r", "n", "a", "t", "i", "o", "n", "a",
     "l", "-", "b", "u", "s", "i", "n", "e", "s", "s", "-", "m",
     "a", "c", "h", "i", "n", "e" >>

\* the server with its master connection open; the Tenant collection
\* holds up to two records, of acme, acme-1 or the 30-character name
SlugInit ==
  /\ handles = << [db |-> MasterDbName, open |-> TRUE] >>
  /\ masterConnection = 1
  /\ connections = << >>
  /\ LET Recs == {NoTenantRecord} \cup
                 {[exists |-> TRUE, subdomain |-> sd, isActive |-> a] :
                    sd \in {ACME, Candidate(ACME, 1), Slug30},
                    a \in BOOLEAN}
     IN  tenants \in {f \in [TenantRecIds -> Recs] :
                        /\ f["t3"] = NoTenantRecord
                        /\ f["t1"].exists /\ f["t2"].exists =>
                             f["t1"].subdomain # f["t2"].subdomain}
  /\ FreshHandlers
  /\ probe = IdleProbe

SlugNext ==
  \/ \E slug \in {ACME, GHOST, Slug30, Slug30 \o << "s" >>} :
       CreateTenantStart(slug, FALSE)
  \/ CreateTenantSubdomainChecked

SlugSpec == SlugInit /\ [][SlugNext]_vars

(***************************************************************************)
(* The public handlers of authController.js, mounted on /api/auth by       *)
(* src/routes/auth.js lines 15-18 and run after the binder has called      *)
(* next().  Each makes one User.findOne on req.db and, when a user is      *)
(* found, awaits user.save().                                              *)
(***************************************************************************)
\* the paths of the public routes; a reset token follows the last one
AuthPaths ==
  LET prefix == <<"/","a","p","i","/","a","u","t","h">>
  IN  [login |-> prefix \o <<"/","l","o","g","i","n">>,
       register |-> prefix \o <<"/","r","e","g","i","s","t","e","r">>,
       forgotPassword |-> prefix \o <<"/","f","o","r","g","o","t","-","p","a","s","s","w","o","r","d">>,
       resetPassword |-> prefix \o <<"/","r","e","s","e","t","-","p","a","s","s","w","o","r","d","/">>]

\* the requests to the public auth routes: on the bare domain and on the
\* host of a tenant
AuthInbound ==
  { <<WwwHost, AuthPaths.login>>, <<WwwHost, AuthPaths.register>>,
    <<WwwHost, AuthPaths.forgotPassword>>,
    <<WwwHost, AuthPaths.resetPassword \o <<"a","b","1","2">> >>,
    <<AcmeHost, AuthPaths.login>>, <<AcmeHost, AuthPaths.forgotPassword>> }

\* routes/auth.js lines 15-18
AuthHandler(path) ==
  IF path = AuthPaths.login THEN "login"
  ELSE IF path = AuthPaths.register THEN "register"
  ELSE IF path = AuthPaths.forgotPassword THEN "forgotPassword"
  ELSE IF StartsWith(path, AuthPaths.resetPassword) THEN "resetPassword"
  ELSE "none"

\* the handler answers with status and returns
AuthAnswer(run, status) == [run EXCEPT !.pc = "done", !.status = status]

\* login, lines 17-38: the tenant context is tested, then the body
Login(rq, complete) ==
  LET run == [NoAuth EXCEPT !.handler = "login"]
  IN  IF rq.tenant = NullTenant \/ rq.db = NoConn THEN AuthAnswer(run, 400)
      ELSE IF ~complete THEN AuthAnswer(run, 400)
      ELSE [run EXCEPT !.pc = "findUser", !.queried = rq.db]

\* register, lines 125-143: the body is tested, the tenant context is not
Register(rq, complete) ==
  LET run == [NoAuth EXCEPT !.handler = "register"]
  IN  IF ~complete THEN AuthAnswer(run, 400)
      ELSE [run EXCEPT !.pc = "findUser", !.queried = rq.db]

\* forgotPassword, lines 192-196
ForgotPassword(rq, complete) ==
  [NoAuth EXCEPT !.handler = "forgotPassword", !.pc = "findUser",
                 !.queried = rq.db]

\* resetPassword, lines 250-261
ResetPassword(rq, complete) ==
  [NoAuth EXCEPT !.handler = "resetPassword", !.pc = "findUser",
                 !.queried = rq.db]

\* the router runs the handler of the request's path; complete tells
\* whether req.body carries the fields the handler asks for
AuthStart(r, complete) ==
  /\ pc[r] = "done"
  /\ nextCalls[r] = 1
  /\ auth[r].pc = "idle"
  /\ AuthHandler(req[r].path) # "none"
  /\ auth' = [auth EXCEPT ![r] =
                IF AuthHandler(req[r].path) = "login"
                THEN Login(req[r], complete)
                ELSE IF AuthHandler(req[r].path) = "register"
                THEN Register(req[r], complete)
                ELSE IF AuthHandler(req[r].path) = "forgotPassword"
                THEN ForgotPassword(req[r], complete)
                ELSE ResetPassword(req[r], complete)]
  /\ UNCHANGED << registry, tenants, requests, closer, sa, direct,
                  indexes, users, ct >>

\* User.findOne resolved; the master database holds no user, the users of
\* the tenant databases are not told apart.  Without a user login answers
\* 401, forgotPassword 404, register and resetPassword 400.
AuthUserLookedUp(r, found) ==
  /\ auth[r].pc = "findUser"
  /\ IsOpen(auth[r].queried)
  /\ found => handles[auth[r].queried].db # MasterDbName
  /\ auth' = [auth EXCEPT ![r] =
                IF found THEN [@ EXCEPT !.pc = "saving"]
                ELSE AuthAnswer(@, IF @.handler = "login" THEN 401
                                   ELSE IF @.handler = "forgotPassword"
                                   THEN 404
                                   ELSE 400)]
  /\ UNCHANGED << registry, tenants, requests, closer, sa, direct,
                  indexes, users, ct >>

\* user.save() resolved: the handler answers 200
AuthSaved(r) ==
  /\ auth[r].pc = "saving"
  /\ auth' = [auth EXCEPT ![r] = AuthAnswer(@, 200)]
  /\ UNCHANGED << registry, tenants, requests, closer, sa, direct,
                  indexes, users, ct >>

\* the awaited query rejected: the catch block answers 500
AuthFailed(r) ==
  /\ auth[r].pc \in {"findUser", "saving"}
  /\ auth' = [auth EXCEPT ![r] = AuthAnswer(@, 500)]
  /\ UNCHANGED << registry, tenants, requests, closer, sa, direct,
                  indexes, users, ct >>

AuthNext ==
  \/ \E r \in Requests, in \in AuthInbound : ReqStart(r, in[1], in[2])
  \/ \E r \in Requests : ReqMasterConnected(r)
  \/ \E r \in Requests : ReqMasterFailed(r)
  \/ \E r \in Requests : ReqLookupReturned(r)
  \/ \E r \in Requests : ReqLookupFailed(r)
  \/ \E r \in Requests : ReqTenantConnected(r)
  \/ \E r \in Requests : ReqTenantConnectFailed(r)
  \/ \E r \in Requests, complete \in BOOLEAN : AuthStart(r, complete)
  \/ \E r \in Requests, found \in BOOLEAN : AuthUserLookedUp(r, found)
  \/ \E r \in Requests : AuthSaved(r)
  \/ \E r \in Requests : AuthFailed(r)

AuthSpec == Init /\ [][AuthNext]_vars

(***************************************************************************)
(* Claims.                                                                 *)
(***************************************************************************)
\* two runs of the binder whose getTenantDB calls, for the same identifier,
\* both returned a connection, the first before the second started
SequentialCalls(r1, r2) ==
  /\ r1 < r2
  /\ Outcome(r1) = "TENANT_BOUND"
  /\ Outcome(r2) = "TENANT_BOUND"
  /\ req[r1].tenantId = req[r2].tenantId

\* C1: when callers do not overlap, two getTenantDB calls for the same
\* identifier with no close in between (the connection the first call
\* returned is still open) return the same connection, the second call
\* creates none, and that connection is the only open one for the tenant's
\* database.
C1_SecondCallIsCacheHit ==
  \A r1, r2 \in Requests :
    (SequentialCalls(r1, r2) /\ IsOpen(req[r1].db)) =>
      /\ req[r2].db = req[r1].db
      /\ ~obs[r2].gtCreated
      /\ {h \in Handles : /\ handles[h].db = TenantDbName(req[r1].tenantId)
                          /\ handles[h].open} = {req[r1].db}

\* the first call created the connection and the second one got it back
C1_Witness ==
  \E r1, r2 \in Requests :
    /\ SequentialCalls(r1, r2)
    /\ IsOpen(req[r1].db)
    /\ obs[r1].gtCreated
    /\ ~obs[r2].gtCreated
    /\ req[r2].db = req[r1].db

\* C2: once every request has completed (and nothing has been closed), every
\* request bound to a tenant holds the connection the cache holds for that
\* tenant's identifier.
C2_AllBoundToCachedHandle ==
  ( /\ \A r \in Requests : pc[r] = "done"
    /\ \A h \in Handles : handles[h].open )
  => \A r \in Requests :
       Outcome(r) = "TENANT_BOUND" =>
         /\ ConnectionsHas(req[r].tenantId)
         /\ ConnectionsGet(req[r].tenantId) = req[r].db

\* C3: every open tenant connection is the one the cache holds for its
\* identifier.
C3_NoLeakedTenantConnection ==
  \A h \in Handles :
    (handles[h].open /\ handles[h].db # MasterDbName) =>
      \E id \in TenantIds : /\ handles[h].db = TenantDbName(id)
                            /\ ConnectionsGet(id) = h

\* C4: at most one connection to the master database is ever opened.
C4_MasterCreatedOnce ==
  Cardinality({h \in Handles : handles[h].db = MasterDbName}) <= 1

\* C5: when closeAllConnections returns, the cache is empty and the master
\* slot is unset; and a call made on a registry already torn down (empty
\* cache, no open connection) changes nothing in the registry.
C5_CloseAllClearsRegistry ==
  [][ /\ (closer.pc # "idle" /\ closer'.pc = "idle") =>
           (connections' = << >> /\ masterConnection' = NoConn)
      /\ ( /\ closer' # closer
           /\ connections = << >>
           /\ \A h \in Handles : ~handles[h].open ) =>
           registry' = registry ]_vars

\* C6: when the close of a cached tenant connection fails, close() has been
\* or is still called on every other cached tenant connection and on the
\* master connection if the slot is set: at the return of the call none of
\* them is left without an attempt.
C6_CloseAllAttemptsEveryHandle ==
  [][ ( /\ closer.pc = "closingTenant"
        /\ closer'.pc = "idle"
        /\ connections' = connections ) =>
          /\ \A i \in 1..Len(connections) :
               connections[i].conn \in closer.attempted
          /\ masterConnection # NoConn => masterConnection \in closer.attempted
    ]_vars

\* C7: a request whose host yields no tenant or whose path starts with
\* /api/super-admin never issues the tenant lookup nor calls getTenantDB,
\* whatever the Tenant collection holds; unless the master initialization
\* failed (answered 500), it ends with next() called once, no response,
\* req.tenant null and req.db a connection to the master database.
C7_MasterRouteBypassesLookup ==
  \A r \in Requests :
    (pc[r] # "idle" /\ MasterRouted(r)) =>
      /\ obs[r].lookups = 0
      /\ obs[r].lookupSaw = "none"
      /\ obs[r].gtCalls = << >>
      /\ pc[r] \in {"awaitMaster", "done"}
      /\ pc[r] = "done" =>
           \/ Outcome(r) = "FAILED"
           \/ /\ nextCalls[r] = 1
              /\ res[r] = NoResponse
              /\ req[r].tenant = NullTenant
              /\ req[r].tenantId = NoString
              /\ req[r].db # NoConn
              /\ handles[req[r].db].db = MasterDbName

\* an administrative request on the host of an active tenant, master-bound
C7_Witness ==
  \E r \in Requests :
    /\ req[r].host = AcmeHost
    /\ req[r].path = AdminTenantsPath
    /\ LookupView(ACME) = "active"
    /\ Outcome(r) = "MASTER_BOUND"
    /\ handles[req[r].db].db = MasterDbName

\* C8: when the lookup of a request finds no active record for its
\* identifier (none at all, or an inactive one), the request ends in that
\* step with 404 TENANT_NOT_FOUND, without next(), without a getTenantDB
\* call, and with the registry (cache and connections) unchanged.
C8_NoActiveTenantIsRejected ==
  [][ \A r \in Requests :
        ( /\ obs[r].lookupSaw = "none"
          /\ obs'[r].lookupSaw \in {"absent", "inactive"} ) =>
          /\ pc'[r] = "done"
          /\ res'[r].status = 404
          /\ res'[r].code = "TENANT_NOT_FOUND"
          /\ nextCalls'[r] = 0
          /\ obs'[r].gtCalls = << >>
          /\ ~obs'[r].gtCreated
          /\ req'[r].db = NoConn
          /\ registry' = registry ]_vars

\* a request for an identifier no record carries was answered 404
C8_Witness ==
  \E r \in Requests :
    /\ req[r].host = GhostHost
    /\ obs[r].lookupSaw = "absent"
    /\ Outcome(r) = "REJECTED"
    /\ res[r].status = 404

\* C9: a request whose lookup finds an active record calls getTenantDB
\* exactly once, with that record's subdomain; unless the connection could
\* not be created (answered 500), it ends with next() called once, req.tenant
\* the record, req.tenantId its subdomain and req.db a connection.
C9_ActiveTenantIsBound ==
  \A r \in Requests :
    obs[r].lookupSaw = "active" =>
      /\ ~MasterRouted(r)
      /\ obs[r].lookups = 1
      /\ obs[r].gtCalls = << obs[r].lookupDoc.subdomain >>
      /\ pc[r] \in {"awaitTenantConn", "done"}
      /\ pc[r] = "done" =>
           \/ Outcome(r) = "FAILED"
           \/ /\ nextCalls[r] = 1
              /\ res[r] = NoResponse
              /\ req[r].tenant = obs[r].lookupDoc
              /\ req[r].tenantId = obs[r].lookupDoc.subdomain
              /\ req[r].db # NoConn

\* a request on the host of an active tenant, bound to that tenant
C9_Witness ==
  \E r \in Requests :
    /\ req[r].host = AcmeHost
    /\ obs[r].lookupSaw = "active"
    /\ Outcome(r) = "TENANT_BOUND"
    /\ req[r].tenantId = ACME
    /\ obs[r].gtCalls = << ACME >>

\* C10: a request whose lookup is served while its tenant is deactivated is
\* answered TENANT_NOT_FOUND and bound to nothing, whether or not the cache
\* still holds a connection for the tenant, and its response equals the
\* response of any request for an identifier that no record carries.
C10_DeactivatedLooksAbsent ==
  /\ \A r \in Requests :
       obs[r].lookupSaw = "inactive" =>
         /\ Outcome(r) = "REJECTED"
         /\ res[r].code = "TENANT_NOT_FOUND"
         /\ nextCalls[r] = 0
         /\ req[r].db = NoConn
         /\ req[r].tenant = NullTenant
  /\ \A r1, r2 \in Requests :
       (obs[r1].lookupSaw = "inactive" /\ obs[r2].lookupSaw = "absent") =>
         res[r1] = res[r2]

\* a request to a deactivated tenant was rejected while the cache still
\* held an open connection for that tenant
C10_Witness ==
  \E r \in Requests :
    /\ obs[r].lookupSaw = "inactive"
    /\ Outcome(r) = "REJECTED"
    /\ ConnectionsHas(extractTenantFromHost(req[r].host))
    /\ IsOpen(ConnectionsGet(extractTenantFromHost(req[r].host)))

\* C11: a request inside which an error was thrown (master initialization,
\* tenant lookup, tenant connection, uninitialized master) has ended, was
\* answered once with status 500 and code TENANT_RESOLUTION_ERROR, never
\* called next(), and its response is the fixed body of the catch block,
\* whose message is not the message of the error.
C11_FailureAnswered500 ==
  \A r \in Requests :
    obs[r].error # "none" =>
      /\ pc[r] = "done"
      /\ res[r].status = 500
      /\ res[r].code = "TENANT_RESOLUTION_ERROR"
      /\ res[r] = TenantResolutionErrorResponse
      /\ res[r].message # obs[r].error
      /\ obs[r].sent = 1
      /\ nextCalls[r] = 0
      /\ req[r].db = NoConn

\* the connection of an active tenant could not be created: answered 500
C11_Witness ==
  \E r \in Requests :
    /\ obs[r].lookupSaw = "active"
    /\ obs[r].gtCreated
    /\ obs[r].error = ClientError
    /\ res[r].status = 500
    /\ nextCalls[r] = 0

\* the four ways a run of the binder ends
TerminalOutcomes == {"MASTER_BOUND", "TENANT_BOUND", "REJECTED", "FAILED"}

\* what a request has done so far is consistent with a single pass
SinglePass(r) ==
  /\ nextCalls[r] <= 1
  /\ obs[r].sent <= 1
  /\ obs[r].masterInits <= 1
  /\ obs[r].lookups <= 1
  /\ Len(obs[r].gtCalls) <= 1
  /\ pc[r] # "done" =>
       (nextCalls[r] = 0 /\ obs[r].sent = 0 /\ res[r] = NoResponse)
  /\ pc[r] = "done" =>
       /\ Outcome(r) \in TerminalOutcomes
       /\ nextCalls[r] + obs[r].sent = 1
       /\ nextCalls[r] = 1 => res[r] = NoResponse
       /\ obs[r].sent = 1 =>
            res[r] \in {TenantNotFoundResponse, TenantResolutionErrorResponse}

\* C12: every step leaves each request in a state where it has called
\* next() at most once, answered at most once, never both, and run master
\* initialization, the lookup and getTenantDB at most once each; a request
\* that has ended is in exactly one of the four terminal outcomes, and
\* nothing about it changes afterwards.
C12_OneTerminalOutcome ==
  [][ \A r \in Requests :
        /\ SinglePass(r)'
        /\ pc[r] = "done" =>
             /\ pc'[r] = "done"
             /\ req'[r] = req[r]
             /\ res'[r] = res[r]
             /\ nextCalls'[r] = nextCalls[r]
             /\ obs'[r] = obs[r] ]_vars

\* two requests that ended differently: one rejected after its lookup, one
\* bound to its tenant after master initialization, lookup and getTenantDB
C12_Witness ==
  \E r1, r2 \in Requests :
    /\ Outcome(r1) = "REJECTED"
    /\ obs[r1].lookups = 1
    /\ Outcome(r2) = "TENANT_BOUND"
    /\ obs[r2].masterInits = 1
    /\ obs[r2].lookups = 1
    /\ Len(obs[r2].gtCalls) = 1

\* C20: a step that is not a step of closeAllConnections keeps every cache
\* entry: each identifier the cache maps to a connection is still mapped to
\* that same connection after the step.
C20_RequestsKeepCacheEntries ==
  [][ closer' = closer =>
        \A i \in 1..Len(connections) :
          \E j \in 1..Len(connections') : connections'[j] = connections[i] ]_vars

\* a host label: not empty, without a dot or a colon
IsLabel(s) == s # << >> /\ \A i \in 1..Len(s) : s[i] \notin {".", ":"}

\* C13: for every label (no dot, no colon) other than www, under each of
\* .localhost, .lvh.me and .myapp.com, with or without a :port,
\* extractTenantFromHost returns exactly the label.
C13_LabelIsReturned ==
  ( /\ probe.done
    /\ IsLabel(probe.label)
    /\ probe.label # WWW
    /\ probe.rest \in TenantDomains )
  => probe.result = probe.label

\* a1A.myapp.com:3000 resolved to a1A
C13_Witness ==
  /\ probe.done
  /\ probe.label = <<"a", "1", "A">>
  /\ probe.rest = DotMyappCom
  /\ probe.port = Port3000
  /\ probe.result = <<"a", "1", "A">>

\* the hosts that carry no tenant: www under a tenant domain, a bare
\* localhost, a bare IP address, the empty (or null) host, any host under
\* another domain
NoTenantHost ==
  \/ probe.label = WWW /\ probe.rest \in TenantDomains
  \/ probe.label = << >> /\ probe.rest \in {Localhost, LoopbackIp, << >>}
  \/ probe.rest = DotExampleCom

\* C14: for www under the three tenant domains, bare localhost, a bare IP
\* address, a host under another domain and the empty or null host, each
\* with or without a :port, extractTenantFromHost returns null.
C14_NoTenantForReservedHosts ==
  (probe.done /\ NoTenantHost) => probe.result = NoString

\* www.lvh.me:3000 resolved to no tenant
C14_Witness ==
  /\ probe.done
  /\ probe.label = WWW
  /\ probe.rest = DotLvhMe
  /\ probe.port = Port3000
  /\ probe.result = NoString

\* C15: every identifier extractTenantFromHost returns has the format of
\* the subdomain field: lowercase letters, digits and hyphens, 3 to 30
\* characters.
C15_ResultHasSubdomainFormat ==
  (probe.done /\ probe.result # NoString) => IsSubdomainFormat(probe.result)

\* every cache entry of the state before the step, other than those for id,
\* is a cache entry after it
OtherEntriesKept(id) ==
  \A i \in 1..Len(connections) :
    connections[i].id # id =>
      \E j \in 1..Len(connections') : connections'[j] = connections[i]

\* C16: closeTenantConnection(id) called when the cache has no entry for id
\* returns at once and changes nothing in the registry; called when it has
\* one, it closes that connection and, when the close is done, the cache has
\* no entry for id, every entry for another identifier is still there, the
\* master slot and every other connection are as they were, and the call
\* returns.
C16_CloseTenantEvictsOnlyItsEntry ==
  [][ \A c \in Calls :
        /\ ( /\ calls[c].op = "none"
             /\ calls'[c].op = "closeTenantConnection" ) =>
               /\ registry' = registry
               /\ IF ConnectionsHas(calls'[c].arg)
                  THEN /\ calls'[c].pc = "closing"
                       /\ calls'[c].cur = ConnectionsGet(calls'[c].arg)
                  ELSE /\ calls'[c].pc = "returned"
                       /\ calls'[c].error = "none"
        /\ ( /\ calls[c].op = "closeTenantConnection"
             /\ calls[c].pc = "closing"
             /\ calls'[c].pc = "returned" ) =>
               /\ ~handles'[calls[c].cur].open
               /\ \A i \in 1..Len(connections') :
                    connections'[i].id # calls[c].arg
               /\ OtherEntriesKept(calls[c].arg)
               /\ Len(connections') >= Len(connections) - 1
               /\ masterConnection' = masterConnection
               /\ \A h \in Handles : h # calls[c].cur => handles'[h] = handles[h]
    ]_vars

\* acme's connection was closed and evicted while beta's stays cached and open
C16_Witness ==
  \E c \in Calls :
    /\ calls[c].op = "closeTenantConnection"
    /\ calls[c].arg = ACME
    /\ calls[c].pc = "returned"
    /\ ~ConnectionsHas(ACME)
    /\ \E h \in Handles : handles[h].db = TenantDbName(ACME) /\ ~handles[h].open
    /\ ConnectionsHas(BETA)
    /\ IsOpen(ConnectionsGet(BETA))

\* initializeMasterDB has completed successfully at least once
MasterInitialized == \E h \in Handles : handles[h].db = MasterDbName

\* C17: getMasterConnection throws 'Master database not initialized' when
\* no initializeMasterDB has completed successfully so far (none called, one
\* in flight, or all failed), and otherwise returns the connection the
\* master slot holds, a connection to the master database; it changes
\* nothing in the registry.
C17_MasterAccessNeedsInit ==
  [][ \A c \in Calls :
        ( /\ calls[c].op = "none"
          /\ calls'[c].op = "getMasterConnection" ) =>
            /\ registry' = registry
            /\ IF MasterInitialized
               THEN /\ calls'[c].pc = "returned"
                    /\ calls'[c].value = masterConnection
                    /\ calls'[c].value # NoConn
                    /\ handles[calls'[c].value].db = MasterDbName
               ELSE /\ calls'[c].pc = "raised"
                    /\ calls'[c].error = MasterNotInitialized ]_vars

\* getMasterConnection threw while an initializeMasterDB was still in flight
C17_Witness ==
  \E c1, c2 \in Calls :
    /\ calls[c1].op = "initializeMasterDB"
    /\ calls[c1].pc = "connecting"
    /\ calls[c2].op = "getMasterConnection"
    /\ calls[c2].pc = "raised"
    /\ calls[c2].error = MasterNotInitialized

\* C18: when createConnection rejects inside initializeMasterDB, the call
\* throws that error to its caller, and the master slot and the connections
\* are what they were before (the slot still unset after a first failed
\* attempt).
C18_MasterInitFailurePropagates ==
  [][ \A c \in Calls :
        ( /\ calls[c].op = "initializeMasterDB"
          /\ ~calls[c].failed
          /\ calls'[c].failed ) =>
            /\ calls'[c].pc = "raised"
            /\ calls'[c].error = ClientError
            /\ calls'[c].value = NoConn
            /\ masterConnection' = masterConnection
            /\ handles' = handles
            /\ connections' = connections ]_vars

\* a first attempt failed, the slot is still unset, and a later call is
\* attempting the initialization again
C18_Witness ==
  \E c1, c2 \in Calls :
    /\ c1 < c2
    /\ calls[c1].op = "initializeMasterDB"
    /\ calls[c1].pc = "raised"
    /\ masterConnection = NoConn
    /\ calls[c2].op = "initializeMasterDB"
    /\ calls[c2].pc = "connecting"

\* C19: a call of initializeMasterDB, getTenantDB, createTenantDB or
\* closeTenantConnection in which the database client rejects ends by
\* throwing to its caller, and a closeAllConnections whose awaited close()
\* did not close the connection does not return normally.
C19_RegistryPropagatesFailures ==
  [][ /\ \A c \in Calls :
           (~calls[c].failed /\ calls'[c].failed) => calls'[c].pc = "raised"
      /\ ( /\ closer.pc \in {"closingTenant", "closingMaster"}
           /\ closer' # closer
           /\ IsOpen(closer.cur)
           /\ handles'[closer.cur].open ) => closer'.pc # "idle" ]_vars

(***************************************************************************)
(* Tenant isolation of the handles, and the order and the effect of        *)
(* closing them.                                                           *)
(***************************************************************************)
\* C22: every entry of the cache keyed id holds a connection opened against
\* the database tenant_<id>, and a request bound to a tenant record has as
\* req.db a connection opened against tenant_<subdomain of that record>:
\* never the master connection, never another tenant's database.
C22_TenantHandleIsItsOwnDatabase ==
  /\ \A i \in 1..Len(connections) :
       /\ connections[i].conn \in Handles
       /\ handles[connections[i].conn].db = TenantDbPrefix \o connections[i].id
  /\ \A r \in Requests :
       Outcome(r) = "TENANT_BOUND" =>
         /\ req[r].db \in Handles
         /\ req[r].db # masterConnection
         /\ handles[req[r].db].db # MasterDbName
         /\ handles[req[r].db].db = TenantDbPrefix \o req[r].tenant.subdomain

\* requests bound to two different tenants hold two different connections,
\* one per tenant database, while the master connection is a third
C22_Witness ==
  \E r1, r2 \in Requests :
    /\ Outcome(r1) = "TENANT_BOUND" /\ req[r1].tenant.subdomain = ACME
    /\ Outcome(r2) = "TENANT_BOUND" /\ req[r2].tenant.subdomain = BETA
    /\ req[r1].db # req[r2].db
    /\ masterConnection # NoConn
    /\ Len(connections) = 2

\* C24: closeAllConnections starts closing the master connection only when
\* close() has been called on every tenant connection the cache holds, and
\* once it is closing the master connection it closes no tenant connection.
C24_MasterClosedAfterTenants ==
  [][ /\ (closer.pc # "closingMaster" /\ closer'.pc = "closingMaster") =>
           \A i \in 1..Len(connections) :
             connections[i].conn \in closer'.attempted
      /\ closer.pc = "closingMaster" =>
           /\ closer'.pc # "closingTenant"
           /\ \A h \in Handles :
                (handles[h].open /\ ~handles'[h].open) =>
                  handles[h].db = MasterDbName ]_vars

\* C25: whenever the binder calls next(), the connection it has put in
\* req.db is open.
C25_BoundHandleIsOpen ==
  [][ \A r \in Requests :
        nextCalls'[r] > nextCalls[r] =>
          /\ req'[r].db \in 1..Len(handles')
          /\ handles'[req'[r].db].open ]_vars

\* C29: a direct call getTenantDB(id) that ends by throwing (the identifier
\* is empty, or createConnection was rejected) leaves the cache and the
\* connections as they were; an empty identifier always throws, at once,
\* "Tenant ID is required"; and a later getTenantDB(id) for an identifier an
\* earlier call failed on, still not cached, awaits createConnection again.
C29_FailedGetTenantDBLeavesCache ==
  [][ \A c \in Calls :
        (calls'[c] # calls[c] /\ calls'[c].op = "getTenantDB") =>
          /\ calls'[c].pc = "raised" =>
               /\ connections' = connections
               /\ handles' = handles
               /\ IF calls'[c].arg = NoString
                  THEN /\ calls[c].op = "none"
                       /\ calls'[c].error = TenantIdRequired
                  ELSE /\ calls[c].pc = "connecting"
                       /\ calls'[c].failed
                       /\ calls'[c].error = ClientError
          /\ calls'[c].arg = NoString => calls'[c].pc = "raised"
          /\ ( /\ calls[c].op = "none"
               /\ calls'[c].arg # NoString
               /\ ~ConnectionsHas(calls'[c].arg)
               /\ \E q \in Calls :
                    /\ q < c
                    /\ calls[q].op = "getTenantDB"
                    /\ calls[q].arg = calls'[c].arg
                    /\ calls[q].pc = "raised" )
             => calls'[c].pc = "connecting" ]_vars

\* with beta cached, getTenantDB(acme) failed on createConnection and left
\* the cache with beta alone; the next getTenantDB(acme) awaits
\* createConnection again
C29_Witness ==
  /\ calls[1].op = "getTenantDB" /\ calls[1].arg = BETA
  /\ calls[1].pc = "returned"
  /\ calls[2].op = "getTenantDB" /\ calls[2].arg = ACME
  /\ calls[2].pc = "raised" /\ calls[2].failed
  /\ calls[3].op = "getTenantDB" /\ calls[3].arg = ACME
  /\ calls[3].pc = "connecting"
  /\ connections = << [id |-> BETA, conn |-> calls[1].value] >>
  /\ IsOpen(calls[1].value)

\* the tenant database of id has a cached open connection and every index
\* of initializeTenantCollections
Provisioned(id) ==
  /\ ConnectionsHas(id)
  /\ IsOpen(ConnectionsGet(id))
  /\ IndexesOf(TenantDbPrefix \o id) = TenantIndexes

\* C23: a call createTenantDB(id) made when the database of id is already
\* provisioned creates no connection, leaves the cache and the indexes of
\* every database as they are, returns the cached connection, and throws
\* only if the database client rejects a createIndex; and no database ever
\* holds the same index twice.
C23_CreateTenantDBIsIdempotent ==
  [][ /\ \A c \in Calls :
           ( /\ calls'[c] # calls[c]
             /\ calls'[c].op = "createTenantDB"
             /\ Provisioned(calls'[c].arg) ) =>
               /\ handles' = handles
               /\ connections' = connections
               /\ indexes' = indexes
               /\ calls'[c].pc \in {"indexing", "returned", "raised"}
               /\ calls'[c].pc = "indexing" =>
                    calls'[c].cur = ConnectionsGet(calls'[c].arg)
               /\ calls'[c].pc = "returned" =>
                    calls'[c].value = ConnectionsGet(calls'[c].arg)
               /\ calls'[c].pc = "raised" => calls'[c].failed
      /\ \A n \in DOMAIN indexes' :
           \A i, j \in 1..Len(indexes'[n]) :
             indexes'[n][i] = indexes'[n][j] => i = j ]_vars

\* createTenantDB(acme) returned twice, one call after the other: one
\* connection, and the indexes of tenant_acme are the fixed list
C23_Witness ==
  /\ \A c \in {1, 2} :
       /\ calls[c].op = "createTenantDB"
       /\ calls[c].arg = ACME
       /\ calls[c].pc = "returned"
  /\ calls[1].value = calls[2].value
  /\ Len(handles) = 1
  /\ Provisioned(ACME)

(***************************************************************************)
(* Tenant records and their databases.                                     *)
(***************************************************************************)
\* C21: no two tenant records carry the same subdomain, and no step changes
\* the subdomain of a record that exists.
C21_SubdomainUniqueAndImmutable ==
  [][ /\ \A t, u \in TenantRecIds :
           (tenants'[t].exists /\ tenants'[u].exists /\ t # u) =>
             tenants'[t].subdomain # tenants'[u].subdomain
      /\ \A t \in TenantRecIds :
           tenants[t].exists =>
             /\ tenants'[t].exists
             /\ tenants'[t].subdomain = tenants[t].subdomain ]_vars

\* C26: a step that adds an entry to the cache adds it under the subdomain
\* of a tenant record that exists.
C26_CacheKeysAreSubdomains ==
  [][ \A i \in 1..Len(connections') :
        (~ConnectionsHas(connections'[i].id)) =>
          \E t \in TenantRecIds :
            /\ tenants[t].exists
            /\ tenants[t].subdomain = connections'[i].id ]_vars

\* C27: the subdomain loop of createTenant ends: against a collection of n
\* records it makes at most n + 1 lookups, since each lookup but the last
\* finds a record no earlier lookup found; and the subdomain it ends with is
\* carried by no record.
C27_SubdomainLoopEnds ==
  /\ ct.pc = "checkSubdomain" =>
       ct.counter <= Cardinality({t \in TenantRecIds : tenants[t].exists}) + 1
  /\ ct.pc = "checkEmail" => ~FindOneTenant(ct.subdomain)

\* C28: when createTenant has answered with an error, the Tenant collection
\* holds no record created by that call.
C28_FailedCreateLeavesNoRecord ==
  (ct.pc = "done" /\ ct.status # 201) =>
    \/ ct.tenant = "none"
    \/ ~tenants[ct.tenant].exists

\* C30: login, register, forgotPassword and resetPassword never query the
\* users collection through the master connection: a request the binder
\* bound to the master connection only is rejected with 400 before any
\* query on req.db.
C30_AuthNeverQueriesMaster ==
  \A r \in Requests :
    /\ auth[r].queried # NoConn =>
         handles[auth[r].queried].db # MasterDbName
    /\ (auth[r].handler # "none" /\ Outcome(r) = "MASTER_BOUND") =>
         /\ auth[r].queried = NoConn
         /\ auth[r].pc = "done"
         /\ auth[r].status = 400

=============================================================================
